---- MODULE Spec2Model ----
(***************************************************************************)
(* EasyRAG SDK client (src/src/client.ts): the request executor            *)
(* (EasyRAG.request), the streaming decoder (EasyRAG.queryStream) and the  *)
(* error normalisation around them.                                        *)
(*                                                                         *)
(* Text is a sequence of characters, each a one-character string; bytes on *)
(* the wire are the same strings for ASCII and "xHH" for the bytes of a    *)
(* multi-byte UTF-8 sequence.  A decoded non-ASCII character is written    *)
(* "U+HHHH".                                                               *)
(***************************************************************************)
EXTENDS Integers, Sequences, FiniteSets, TLC

\* ------------------------------------------------------------------ bounds
\* Concurrent calls on one client instance.
NumCalls == 2
\* Newline-terminated lines in a response stream (SpecStream).
MaxLines == 2

\* --------------------------------------------------------------- JS values
\* Every JavaScript value of the model is a record [t, v]: t its type.
JUndef == [t |-> "undefined", v |-> <<>>]
JNull == [t |-> "null", v |-> <<>>]
JTrue == [t |-> "bool", v |-> <<TRUE>>]
JFalse == [t |-> "bool", v |-> <<FALSE>>]
JNum(n) == [t |-> "num", v |-> n]
JStr(chars) == [t |-> "str", v |-> chars]
\* members: a sequence of <<key, value>> pairs, key a sequence of characters
JObj(members) == [t |-> "obj", v |-> members]
JArr(items) == [t |-> "arr", v |-> items]

Digits == <<"0", "1", "2", "3", "4", "5", "6", "7", "8", "9">>
DigitSet == {Digits[i] : i \in 1..10}
DigitVal(ch) == (CHOOSE i \in 1..10 : Digits[i] = ch) - 1
Whitespace == {" ", "\r", "\t"}

\* What a parse step returns: ok, the value, and the text left after it.
ParseFail == [ok |-> FALSE, val |-> JUndef, rest |-> <<>>]
ParseOk(val, rest) == [ok |-> TRUE, val |-> val, rest |-> rest]

HasPrefix(s, p) == Len(s) >= Len(p) /\ SubSeq(s, 1, Len(p)) = p
Drop(s, n) == SubSeq(s, n + 1, Len(s))

\* The number of leading characters of s that are in set S.
Span(s, S) ==
    IF \A i \in 1..Len(s) : s[i] \in S THEN Len(s)
    ELSE (CHOOSE i \in 1..Len(s) : s[i] \notin S /\ \A j \in 1..(i - 1) : s[j] \in S) - 1

SkipWs(s) == Drop(s, Span(s, Whitespace))

RECURSIVE DigitsVal(_)
DigitsVal(ds) ==
    IF ds = <<>> THEN 0
    ELSE 10 * DigitsVal(SubSeq(ds, 1, Len(ds) - 1)) + DigitVal(ds[Len(ds)])

\* s starts with a digit: the number is its first n characters, its digits.
NumberOf(s, n) == ParseOk(JNum(DigitsVal(SubSeq(s, 1, n))), Drop(s, n))
ParseDigits(s) == NumberOf(s, Span(s, DigitSet))

\* s follows the opening quote and its closing quote follows n characters.
\* A backslash or a control character is outside the subset modelled.
StringOf(s, n) ==
    IF n = Len(s) THEN ParseFail
    ELSE IF \E i \in 1..n : s[i] \in {"\\", "\n", "\r", "\t"} THEN ParseFail
    ELSE ParseOk(JStr(SubSeq(s, 1, n)), Drop(s, n + 1))
ParseChars(s) == StringOf(s, Span(s, {ch \in {s[i] : i \in 1..Len(s)} : ch # "\""}))

RECURSIVE ParseValue(_)
RECURSIVE ParseMembers(_, _)
RECURSIVE ParseItems(_, _)

\* After a member: s is what follows its value, got the members so far.
MembersNext(s, got) ==
    IF s = <<>> THEN ParseFail
    ELSE IF Head(s) = "}" THEN ParseOk(JObj(got), Tail(s))
    ELSE IF Head(s) = "," THEN ParseMembers(Tail(s), got)
    ELSE ParseFail

\* m is the parse of a member's value, key its key.
MemberValue(key, m, acc) ==
    IF ~m.ok THEN ParseFail
    ELSE MembersNext(SkipWs(m.rest), Append(acc, <<key, m.val>>))

\* s is what follows a member's key.
MemberColon(key, s, acc) ==
    IF s = <<>> \/ Head(s) # ":" THEN ParseFail
    ELSE MemberValue(key, ParseValue(Tail(s)), acc)

\* k is the parse of a member's key.
MemberKey(k, acc) ==
    IF ~k.ok THEN ParseFail ELSE MemberColon(k.val.v, SkipWs(k.rest), acc)

\* s is at a member, whitespace skipped.
MemberAt(s, acc) ==
    IF s = <<>> \/ Head(s) # "\"" THEN ParseFail
    ELSE MemberKey(ParseChars(Tail(s)), acc)

\* s follows "{" or a ","; acc the members read so far.
ParseMembers(s, acc) == MemberAt(SkipWs(s), acc)

\* After an item: s is what follows it, got the items so far.
ItemsNext(s, got) ==
    IF s = <<>> THEN ParseFail
    ELSE IF Head(s) = "]" THEN ParseOk(JArr(got), Tail(s))
    ELSE IF Head(s) = "," THEN ParseItems(Tail(s), got)
    ELSE ParseFail

\* m is the parse of an item.
ItemValue(m, acc) ==
    IF ~m.ok THEN ParseFail ELSE ItemsNext(SkipWs(m.rest), Append(acc, m.val))

\* s follows "[" or a ","; acc the items read so far.
ParseItems(s, acc) == ItemValue(ParseValue(s), acc)

\* s follows "{", whitespace skipped.
ObjectAt(s) ==
    IF s # <<>> /\ Head(s) = "}" THEN ParseOk(JObj(<<>>), Tail(s))
    ELSE ParseMembers(s, <<>>)

\* s follows "[", whitespace skipped.
ArrayAt(s) ==
    IF s # <<>> /\ Head(s) = "]" THEN ParseOk(JArr(<<>>), Tail(s))
    ELSE ParseItems(s, <<>>)

\* s is at a value, whitespace skipped.
ValueAt(s) ==
    IF s = <<>> THEN ParseFail
    ELSE IF Head(s) = "{" THEN ObjectAt(SkipWs(Tail(s)))
    ELSE IF Head(s) = "[" THEN ArrayAt(SkipWs(Tail(s)))
    ELSE IF Head(s) = "\"" THEN ParseChars(Tail(s))
    ELSE IF Head(s) \in DigitSet THEN ParseDigits(s)
    ELSE IF HasPrefix(s, <<"t", "r", "u", "e">>) THEN ParseOk(JTrue, Drop(s, 4))
    ELSE IF HasPrefix(s, <<"f", "a", "l", "s", "e">>) THEN ParseOk(JFalse, Drop(s, 5))
    ELSE IF HasPrefix(s, <<"n", "u", "l", "l">>) THEN ParseOk(JNull, Drop(s, 4))
    ELSE ParseFail

ParseValue(s) == ValueAt(SkipWs(s))

\* r is the parse of the first value of the text: the whole text must be
\* that value, whitespace around it allowed.
WholeText(r) == IF r.ok /\ SkipWs(r.rest) = <<>> THEN r ELSE ParseFail

\* JSON.parse(text): the value, or a SyntaxError (ok = FALSE).
JSONParse(text) == WholeText(ParseValue(text))

\* ------------------------------------------------------------------- UTF-8
Replacement == "U+FFFD"
LeadBytes == {"xC3", "xE2"}
ContBytes == {"xA9", "x82", "xAC"}
NeedLen(lead) == IF lead = "xC3" THEN 2 ELSE 3

CodePoint(bytes) ==
    IF bytes = <<"xC3", "xA9">> THEN "U+00E9"
    ELSE IF bytes = <<"xE2", "x82", "xAC">> THEN "U+20AC"
    ELSE Replacement

\* The server's encoder: one character to its bytes.
EncodeChar(ch) ==
    IF ch = "U+00E9" THEN <<"xC3", "xA9">>
    ELSE IF ch = "U+20AC" THEN <<"xE2", "x82", "xAC">>
    ELSE <<ch>>

\* Halving keeps the evaluation shallow on long texts.
RECURSIVE Encode(_)
Encode(text) ==
    IF text = <<>> THEN <<>>
    ELSE IF Len(text) = 1 THEN EncodeChar(text[1])
    ELSE Encode(SubSeq(text, 1, Len(text) \div 2))
             \o Encode(SubSeq(text, Len(text) \div 2 + 1, Len(text)))

\* TextDecoder.decode(value, {stream: true}): pend is the decoder's held
\* prefix of an unfinished multi-byte sequence; the result is the text
\* decoded and the prefix held for the next call.
\* The decoder has a whole sequence p, or holds it for its next byte.
Sequence(p) ==
    IF Len(p) = NeedLen(p[1]) THEN [text |-> <<CodePoint(p)>>, pend |-> <<>>]
    ELSE [text |-> <<>>, pend |-> p]

\* One byte b with the decoder holding pend.
DecodeByte(pend, b) ==
    IF pend = <<>> THEN
        IF b \in LeadBytes THEN [text |-> <<>>, pend |-> <<b>>]
        ELSE IF b \in ContBytes THEN [text |-> <<Replacement>>, pend |-> <<>>]
        ELSE [text |-> <<b>>, pend |-> <<>>]
    ELSE IF b \in ContBytes THEN Sequence(Append(pend, b))
    ELSE IF b \in LeadBytes THEN [text |-> <<Replacement>>, pend |-> <<b>>]
    ELSE [text |-> <<Replacement, b>>, pend |-> <<>>]

\* The bytes in order, each from the state the one before left; halving
\* keeps the evaluation shallow on long chunks.
RECURSIVE DecodeFrom(_, _)
Joined(l, r) == [text |-> l.text \o r.text, pend |-> r.pend]
Then(l, bytes) == Joined(l, DecodeFrom(l.pend, bytes))
DecodeFrom(pend, bytes) ==
    IF bytes = <<>> THEN [text |-> <<>>, pend |-> pend]
    ELSE IF Len(bytes) = 1 THEN DecodeByte(pend, bytes[1])
    ELSE Then(DecodeFrom(pend, SubSeq(bytes, 1, Len(bytes) \div 2)),
              SubSeq(bytes, Len(bytes) \div 2 + 1, Len(bytes)))

\* A decoder that keeps no state between calls: an unfinished sequence at
\* the end of a chunk is replaced at once.
Flushed(r) ==
    [text |-> IF r.pend = <<>> THEN r.text ELSE Append(r.text, Replacement),
     pend |-> <<>>]
DecodeStateless(pend, bytes) == Flushed(DecodeFrom(<<>>, bytes))

Decode(pend, bytes) == DecodeFrom(pend, bytes)

\* ------------------------------------------------------- lines and frames
Marker == <<"d", "a", "t", "a", ":", " ">>

\* buffer.split('\n'): the segments between newlines, always at least one.
\* The position of the k-th of the newlines nl of a text of length n: 0
\* before the text, n + 1 after it.
NewlineAt(nl, n, k) ==
    IF k = 0 THEN 0
    ELSE IF k > Cardinality(nl) THEN n + 1
    ELSE CHOOSE i \in nl : Cardinality({j \in nl : j < i}) = k - 1

SplitAt(buffer, nl) ==
    [k \in 1..(Cardinality(nl) + 1) |->
        SubSeq(buffer, NewlineAt(nl, Len(buffer), k - 1) + 1,
               NewlineAt(nl, Len(buffer), k) - 1)]

SplitEager(buffer) ==
    Append(SplitAt(buffer, {i \in 1..Len(buffer) : buffer[i] = "\n"}), <<>>)
Split(buffer) == SplitAt(buffer, {i \in 1..Len(buffer) : buffer[i] = "\n"})

\* line.startsWith('data: ')
StartsWithMarker(line) == HasPrefix(line, Marker)

\* The frame of a line: JSON.parse(line.slice(6)) of a line with the marker.
Frame(line) ==
    IF StartsWithMarker(line) THEN JSONParse(Drop(line, Len(Marker))) ELSE ParseFail

\* ------------------------------------------------------------------ errors
\* An Error object: cls its class, name its .name; status, code and details
\* are the fields EasyRAGError adds (undefined on any other error).
JErr(cls, name, message, status, code, details) ==
    [t |-> "error",
     v |-> [cls |-> cls, name |-> name, message |-> message,
            status |-> status, code |-> code, details |-> details]]

\* String(x) as the Error constructor applies it to its message.
RECURSIVE ToDigits(_)
ToDigits(n) ==
    IF n < 10 THEN <<Digits[n + 1]>> ELSE Append(ToDigits(n \div 10), Digits[(n % 10) + 1])

ToStr(val) ==
    IF val.t = "str" THEN val
    ELSE IF val.t = "num" THEN JStr(ToDigits(val.v))
    ELSE JStr(<<"[", "o", "b", "j", "e", "c", "t", "]">>)

\* new EasyRAGError(message, status, code, details)
EasyRAGError(message, status, code, details) ==
    JErr("EasyRAGError", "EasyRAGError", ToStr(message), status, code, details)

\* Errors the platform raises.
RawError(cls, name, message) == JErr(cls, name, JStr(message), JUndef, JUndef, JUndef)
AbortError ==
    RawError("DOMException", "AbortError",
             <<"T", "h", "i", "s", " ", "o", "p", "e", "r", "a", "t", "i", "o", "n", " ",
               "w", "a", "s", " ", "a", "b", "o", "r", "t", "e", "d">>)
SyntaxError ==
    RawError("SyntaxError", "SyntaxError",
             <<"U", "n", "e", "x", "p", "e", "c", "t", "e", "d", " ", "t", "o", "k", "e", "n">>)
NullTypeError ==
    RawError("TypeError", "TypeError",
             <<"C", "a", "n", "n", "o", "t", " ", "r", "e", "a", "d", " ", "p", "r", "o", "p",
               "e", "r", "t", "i", "e", "s", " ", "o", "f", " ", "n", "u", "l", "l">>)

\* Text of the literals of client.ts.
RequestTimeoutText ==
    <<"R", "e", "q", "u", "e", "s", "t", " ", "t", "i", "m", "e", "o", "u", "t">>
NetworkErrorText ==
    <<"N", "e", "t", "w", "o", "r", "k", " ", "e", "r", "r", "o", "r">>
StreamingErrorText ==
    <<"S", "t", "r", "e", "a", "m", "i", "n", "g", " ", "e", "r", "r", "o", "r">>
UnknownErrorText ==
    <<"U", "n", "k", "n", "o", "w", "n", " ", "e", "r", "r", "o", "r">>
HttpText == <<"H", "T", "T", "P", " ">>
KeyError == <<"e", "r", "r", "o", "r">>
KeyMessage == <<"m", "e", "s", "s", "a", "g", "e">>
KeyDetails == <<"d", "e", "t", "a", "i", "l", "s">>

\* A thrown value or a completed evaluation.
Thrown(e) == [threw |-> TRUE, val |-> e]
Value(x) == [threw |-> FALSE, val |-> x]

\* obj[key] of an object value: the last member with that key.
RECURSIVE Lookup(_, _)
Lookup(members, key) ==
    IF members = <<>> THEN JUndef
    ELSE IF members[Len(members)][1] = key THEN members[Len(members)][2]
    ELSE Lookup(SubSeq(members, 1, Len(members) - 1), key)

\* x.key : a TypeError on null and undefined, undefined on a value without
\* that property.
Get(x, key) ==
    IF x.t \in {"null", "undefined"} THEN Thrown(NullTypeError)
    ELSE IF x.t = "obj" THEN Value(Lookup(x.v, key))
    ELSE Value(JUndef)

\* JavaScript truthiness, as || applies it.
Truthy(x) ==
    CASE x.t \in {"undefined", "null"} -> FALSE
      [] x.t = "str" -> x.v # <<>>
      [] x.t = "num" -> x.v # 0
      [] x.t = "bool" -> x.v[1]
      [] OTHER -> TRUE

Or(a, b) == IF Truthy(a) THEN a ELSE b

IsEasyRAGError(e) == e.t = "error" /\ e.v.cls = "EasyRAGError"

isAbortError(e) == e.t = "error" /\ e.v.name = "AbortError"

getErrorMessage(e) ==
    IF e.t = "error" THEN e.v.message
    ELSE IF e.t = "str" THEN e
    ELSE JStr(UnknownErrorText)

\* response.ok
Ok(status) == status >= 200 /\ status <= 299

\* response.json(): the body decoded as UTF-8 and parsed.
ResponseJson(body) == JSONParse(Decode(<<>>, body).text)

\* response.json().catch(() => ({})), r what response.json() gave
OrEmptyObject(r) == IF r.ok THEN r.val ELSE JObj(<<>>)
ErrorBody(body) == OrEmptyObject(ResponseJson(body))

HttpStatusText(status) == JStr(HttpText \o ToDigits(status))

\* The throw statement of request for a non-2xx response: the EasyRAGError
\* built from the body, or the TypeError of reading a property of null.
RequestThrowMessageFirst(status, error) ==
    IF Get(error, KeyError).threw THEN Get(error, KeyError).val
    ELSE EasyRAGError(
             Or(Get(error, KeyMessage).val,
                Or(Get(error, KeyError).val, HttpStatusText(status))),
             JNum(status),
             Get(error, KeyError).val,
             Get(error, KeyDetails).val)

RequestThrow(status, error) ==
    IF Get(error, KeyError).threw THEN Get(error, KeyError).val
    ELSE EasyRAGError(
             Or(Get(error, KeyError).val,
                Or(Get(error, KeyMessage).val, HttpStatusText(status))),
             JNum(status),
             Get(error, KeyError).val,
             Get(error, KeyDetails).val)

RequestHttpError(status, body) == RequestThrow(status, ErrorBody(body))

\* The same statement of queryStream.
StreamThrow(status, error) ==
    IF Get(error, KeyError).threw THEN Get(error, KeyError).val
    ELSE EasyRAGError(Or(Get(error, KeyError).val, HttpStatusText(status)),
                      JNum(status), JUndef, JUndef)

StreamHttpError(status, body) == StreamThrow(status, ErrorBody(body))

\* The catch block of request: what the call throws for a caught error.
RequestCatch(error) ==
    IF IsEasyRAGError(error) THEN error
    ELSE IF isAbortError(error) THEN EasyRAGError(JStr(RequestTimeoutText), JUndef, JUndef, JUndef)
    ELSE EasyRAGError(Or(getErrorMessage(error), JStr(NetworkErrorText)),
                      JUndef, JUndef, error)

\* The catch block of queryStream.
StreamCatch(error) ==
    IF IsEasyRAGError(error) THEN error
    ELSE IF isAbortError(error) THEN EasyRAGError(JStr(RequestTimeoutText), JUndef, JUndef, JUndef)
    ELSE EasyRAGError(Or(getErrorMessage(error), JStr(StreamingErrorText)),
                      JUndef, JUndef, JUndef)

Catch(k, error) == IF k = "request" THEN RequestCatch(error) ELSE StreamCatch(error)

\* One line of the for loop of queryStream: "yield" its frame, "skip" it,
\* or "throw" out of the loop.
Skip == [act |-> "skip", val |-> JUndef]

\* try { yield JSON.parse(...) } catch (e) { continue }, r what parse gave
YieldOrThrow(r) ==
    IF r.ok THEN [act |-> "yield", val |-> r.val] ELSE [act |-> "throw", val |-> SyntaxError]
YieldOrRaise(r) ==
    IF ~r.ok THEN Skip
    ELSE IF r.val.t = "obj" /\ Lookup(r.val.v, KeyError) # JUndef
    THEN [act |-> "throw", val |-> EasyRAGError(Lookup(r.val.v, KeyError), JUndef, JUndef, JUndef)]
    ELSE [act |-> "yield", val |-> r.val]
YieldOrSkip(r) == IF r.ok THEN [act |-> "yield", val |-> r.val] ELSE Skip

LineStep(line) ==
    IF ~StartsWithMarker(line) THEN Skip
    ELSE YieldOrSkip(JSONParse(Drop(line, Len(Marker))))

\* The for loop from the lines left: runs to the first yield or throw, or to
\* the end of the lines ("read": back to reader.read()).
RECURSIVE RunLines(_)
AfterStepDropsRest(s, rest) ==
    IF s.act = "skip" THEN RunLines(rest)
    ELSE [act |-> s.act, val |-> s.val, rest |-> <<>>]
AfterStep(s, rest) ==
    IF s.act = "skip" THEN RunLines(rest)
    ELSE [act |-> s.act, val |-> s.val, rest |-> rest]
RunLines(ls) ==
    IF ls = <<>> THEN [act |-> "read", val |-> JUndef, rest |-> <<>>]
    ELSE AfterStep(LineStep(Head(ls)), Tail(ls))

\* ------------------------------------------------------------------ inputs
\* Bodies a server may send with a non-2xx status.
\* an empty body
BodyEmpty ==
    <<>>
\* null
BodyNull ==
    <<"n", "u", "l", "l">>
\* 7
BodyNumber ==
    <<"7">>
\* "x"
BodyString ==
    <<"\"", "x", "\"">>
\* []
BodyArray ==
    <<"[", "]">>
\* {}
BodyEmptyObject ==
    <<"{", "}">>
\* {"error":"INSUFFICIENT_CREDITS","details":{"required":1,"available":0}}
BodyCredits ==
    <<"{", "\"", "e", "r", "r", "o", "r", "\"", ":", "\"", "I", "N", "S", "U", "F",
      "F", "I", "C", "I", "E", "N", "T", "_", "C", "R", "E", "D", "I", "T", "S", "\"",
      ",", "\"", "d", "e", "t", "a", "i", "l", "s", "\"", ":", "{", "\"", "r", "e",
      "q", "u", "i", "r", "e", "d", "\"", ":", "1", ",", "\"", "a", "v", "a", "i", "l",
      "a", "b", "l", "e", "\"", ":", "0", "}", "}">>
\* {"message":"m"}
BodyMessage ==
    <<"{", "\"", "m", "e", "s", "s", "a", "g", "e", "\"", ":", "\"", "m", "\"", "}">>
\* {"error":"","message":"m"}
BodyEmptyError ==
    <<"{", "\"", "e", "r", "r", "o", "r", "\"", ":", "\"", "\"", ",", "\"", "m", "e",
      "s", "s", "a", "g", "e", "\"", ":", "\"", "m", "\"", "}">>
\* {"error":"E","message":"m"}
BodyBoth ==
    <<"{", "\"", "e", "r", "r", "o", "r", "\"", ":", "\"", "E", "\"", ",", "\"", "m",
      "e", "s", "s", "a", "g", "e", "\"", ":", "\"", "m", "\"", "}">>
\* oops
BodyNotJson ==
    <<"o", "o", "p", "s">>
\* {"success":true}
BodySuccess ==
    <<"{", "\"", "s", "u", "c", "c", "e", "s", "s", "\"", ":", "t", "r", "u", "e", "}">>

\* Lines a server may send on a 2xx streaming response.
\* data: {"delta":"e-acute"}   (e-acute is U+00E9, two bytes)
LineDelta ==
    <<"d", "a", "t", "a", ":", " ", "{", "\"", "d", "e", "l", "t", "a", "\"", ":",
      "\"", "U+00E9", "\"", "}">>
\* data: {"done":true}
LineDone ==
    <<"d", "a", "t", "a", ":", " ", "{", "\"", "d", "o", "n", "e", "\"", ":", "t", "r",
      "u", "e", "}">>
\* data: not-json
LineBad ==
    <<"d", "a", "t", "a", ":", " ", "n", "o", "t", "-", "j", "s", "o", "n">>
\* :euro-sign   (the euro sign is U+20AC, three bytes)
LineNoise ==
    <<":", "U+20AC">>
\* data: {"error":"x"}
LineError ==
    <<"d", "a", "t", "a", ":", " ", "{", "\"", "e", "r", "r", "o", "r", "\"", ":",
      "\"", "x", "\"", "}">>
\* data: {"delta":"a"}
LineDeltaA ==
    <<"d", "a", "t", "a", ":", " ", "{", "\"", "d", "e", "l", "t", "a", "\"", ":",
      "\"", "a", "\"", "}">>
\* data: 1
LineShort ==
    <<"d", "a", "t", "a", ":", " ", "1">>
\* Failed to fetch
FailedToFetchText ==
    <<"F", "a", "i", "l", "e", "d", " ", "t", "o", " ", "f", "e", "t", "c", "h">>

\* Failures the transport reports: a TypeError, and an Error with no message.
FetchFailed == RawError("TypeError", "TypeError", FailedToFetchText)
SilentFailure == RawError("Error", "Error", <<>>)
TransportErrors == {FetchFailed, SilentFailure}

Response(status, body) == [status |-> status, body |-> body]
NoResponse == Response(0, <<>>)

ErrorStatuses == {402, 500}
ErrorBodies ==
    {BodyEmpty, BodyNull, BodyNumber, BodyString, BodyArray, BodyEmptyObject,
     BodyCredits, BodyMessage, BodyEmptyError, BodyBoth, BodyNotJson}
ErrorResponses == {Response(s, Encode(b)) : s \in ErrorStatuses, b \in ErrorBodies}
JsonResponses ==
    {Response(200, Encode(b)) :
        b \in {BodySuccess, BodyCredits, BodyArray, BodyNull, BodyNotJson, BodyEmpty}}

\* The bytes of a stream: each line followed by a newline, then the tail.
RECURSIVE WireOf(_, _)
WireOf(lines, tail) ==
    IF lines = <<>> THEN Encode(tail)
    ELSE Encode(Head(lines)) \o <<"\n">> \o WireOf(Tail(lines), tail)

SeqsUpTo(S, n) == UNION {[1..k -> S] : k \in 0..n}

LineSet == {LineDelta, LineDone, LineBad, LineNoise, LineError}

\* The streams of up to n lines of LineSet, the last line with its newline
\* or without it.
Streams(n) ==
    {WireOf(ls, <<>>) : ls \in SeqsUpTo(LineSet, n)}
        \cup {WireOf(SubSeq(ls, 1, Len(ls) - 1), ls[Len(ls)]) :
                 ls \in SeqsUpTo(LineSet, n) \ {<<>>}}

\* The streams of the specification's examples: three frames in order, and
\* a malformed frame between two valid ones.
OrderExample == WireOf(<<LineDeltaA, LineDelta, LineDone>>, <<>>)
MalformedExample == WireOf(<<LineDelta, LineBad, LineDone>>, <<>>)

StreamResponses ==
    {Response(200, w) : w \in Streams(MaxLines) \cup {OrderExample, MalformedExample}}

\* The few responses of the specification of concurrent calls.
FewErrorResponses == {Response(402, Encode(BodyCredits)), Response(500, Encode(BodyNull))}
FewJsonResponses == {Response(200, Encode(b)) : b \in {BodySuccess, BodyNotJson}}
FewStreamResponses == {Response(200, WireOf(<<LineShort>>, <<>>))}

\* ---------------------------------------------------------------- requests
\* Text of the literals of client.ts that go into a request.
DefaultBaseUrlText ==
    <<"h", "t", "t", "p", "s", ":", "/", "/", "a", "p", "i", ".", "e", "a", "s", "y",
      "r", "a", "g", ".", "c", "o", "m">>
DefaultTimeout == 30000
DefaultTtlSeconds == 3600
BearerText == <<"B", "e", "a", "r", "e", "r", " ">>
KeyAuthorization == <<"A", "u", "t", "h", "o", "r", "i", "z", "a", "t", "i", "o", "n">>
KeyContentType == <<"C", "o", "n", "t", "e", "n", "t", "-", "T", "y", "p", "e">>
JsonTypeText ==
    <<"a", "p", "p", "l", "i", "c", "a", "t", "i", "o", "n", "/", "j", "s", "o", "n">>
KeyApiKey == <<"a", "p", "i", "K", "e", "y">>
KeyBaseUrl == <<"b", "a", "s", "e", "U", "r", "l">>
KeyTimeout == <<"t", "i", "m", "e", "o", "u", "t">>
KeyDatasetId == <<"d", "a", "t", "a", "s", "e", "t", "I", "d">>
KeyQuestion == <<"q", "u", "e", "s", "t", "i", "o", "n">>
KeyStream == <<"s", "t", "r", "e", "a", "m">>
KeyTtlSeconds == <<"t", "t", "l", "S", "e", "c", "o", "n", "d", "s">>
KeyFilters == <<"f", "i", "l", "t", "e", "r", "s">>
KeyFile == <<"f", "i", "l", "e">>
KeyHeaders == <<"h", "e", "a", "d", "e", "r", "s">>
KeyMetadata == <<"m", "e", "t", "a", "d", "a", "t", "a">>
KeyChunkSize == <<"c", "h", "u", "n", "k", "S", "i", "z", "e">>
KeyChunkOverlap == <<"c", "h", "u", "n", "k", "O", "v", "e", "r", "l", "a", "p">>
PathQuery == <<"/", "v", "1", "/", "q", "u", "e", "r", "y">>
PathFiles == <<"/", "v", "1", "/", "f", "i", "l", "e", "s">>
QueryDatasetId == <<"?", "d", "a", "t", "a", "s", "e", "t", "I", "d", "=">>

\* obj[key] = val on the members of an object: in place when the object has
\* the key, at the end when it has not.
HasKey(members, key) == \E i \in DOMAIN members : members[i][1] = key
Assign(members, key, val) ==
    IF HasKey(members, key)
    THEN [i \in DOMAIN members |-> IF members[i][1] = key THEN <<key, val>> ELSE members[i]]
    ELSE Append(members, <<key, val>>)

\* { ...a, ...b } on the members of a and b
RECURSIVE Spread(_, _)
Spread(a, b) ==
    IF b = <<>> THEN a ELSE Spread(Assign(a, b[1][1], b[1][2]), Tail(b))

\* JSON.stringify(x): a member whose value is undefined is left out, an
\* undefined item of an array is written null.
Quoted(chars) == <<"\"">> \o chars \o <<"\"">>
IsDefined(m) == m[2].t # "undefined"
RECURSIVE Stringify(_)
RECURSIVE StringifyMembers(_)
RECURSIVE StringifyItems(_)
StringifyMembers(ms) ==
    IF ms = <<>> THEN <<>>
    ELSE Quoted(ms[1][1]) \o <<":">> \o Stringify(ms[1][2])
             \o (IF Len(ms) = 1 THEN <<>> ELSE <<",">> \o StringifyMembers(Tail(ms)))
StringifyItems(items) ==
    IF items = <<>> THEN <<>>
    ELSE (IF items[1].t = "undefined" THEN Stringify(JNull) ELSE Stringify(items[1]))
             \o (IF Len(items) = 1 THEN <<>> ELSE <<",">> \o StringifyItems(Tail(items)))
Stringify(x) ==
    CASE x.t = "str" -> Quoted(x.v)
      [] x.t = "num" -> ToDigits(x.v)
      [] x.t = "bool" -> (IF x.v[1] THEN <<"t", "r", "u", "e">> ELSE <<"f", "a", "l", "s", "e">>)
      [] x.t = "obj" -> <<"{">> \o StringifyMembers(SelectSeq(x.v, IsDefined)) \o <<"}">>
      [] x.t = "arr" -> <<"[">> \o StringifyItems(x.v) \o <<"]">>
      [] OTHER -> <<"n", "u", "l", "l">>

\* encodeURIComponent(text): the characters reserved in a URL are escaped.
EscapeChar(ch) ==
    CASE ch = "/" -> <<"%", "2", "F">>
      [] ch = " " -> <<"%", "2", "0">>
      [] ch = "&" -> <<"%", "2", "6">>
      [] ch = "?" -> <<"%", "3", "F">>
      [] ch = "=" -> <<"%", "3", "D">>
      [] OTHER -> <<ch>>
RECURSIVE encodeURIComponent(_)
encodeURIComponent(text) ==
    IF text = <<>> THEN <<>>
    ELSE EscapeChar(Head(text)) \o encodeURIComponent(Tail(text))

\* What fetch is called with.  The options request is given are a record of
\* the method, headers and body a public method passes (undefined if none).
Fetched(url, method, headers, body) ==
    [url |-> url, method |-> method, headers |-> headers, body |-> body]
NoRequest == Fetched(<<>>, JUndef, JUndef, JUndef)
RequestInit(method, headers, body) == [method |-> method, headers |-> headers, body |-> body]

\* ...options.headers : nothing when the options have no headers
HeadersOf(options) == IF options.headers.t = "obj" THEN options.headers.v ELSE <<>>

\* `Bearer ${this.apiKey}`
BearerOf(key) == JStr(BearerText \o ToStr(key).v)
JsonContentType == JObj(<< <<KeyContentType, JStr(JsonTypeText)>> >>)

\* request(endpoint, options): the call of fetch, for a client of base URL
\* base and credential key.
RequestFetch(base, key, endpoint, options) ==
    Fetched(ToStr(base).v \o endpoint,
            options.method,
            JObj(Spread(<< <<KeyAuthorization, BearerOf(key)>> >>, HeadersOf(options))),
            options.body)

\* A FormData: its entries in the order appended.
FormData(entries) == [t |-> "form", v |-> entries]
FileEntries(files) == [i \in DOMAIN files |-> <<KeyFile, files[i]>>]
\* String(x) of a number; JSON.stringify of the metadata.
MetadataEntry(options) ==
    IF Truthy(Lookup(options.v, KeyMetadata))
    THEN << <<KeyMetadata, JStr(Stringify(Lookup(options.v, KeyMetadata)))>> >>
    ELSE <<>>
NumberEntry(options, key) ==
    IF Lookup(options.v, key) # JUndef
    THEN << <<key, ToStr(Lookup(options.v, key))>> >>
    ELSE <<>>

\* The arguments of fetch each public method ends with.
UploadFetch(base, key, datasetId, files, options) ==
    RequestFetch(base, key,
        <<"/", "v", "1", "/", "f", "i", "l", "e", "s", "/", "u", "p", "l", "o", "a", "d">>,
        RequestInit(JStr(<<"P", "O", "S", "T">>), JUndef,
            FormData(<< <<KeyDatasetId, datasetId>> >> \o FileEntries(files)
                        \o MetadataEntry(options)
                        \o NumberEntry(options, KeyChunkSize)
                        \o NumberEntry(options, KeyChunkOverlap))))
ListFilesFetch(base, key, datasetId) ==
    RequestFetch(base, key,
        PathFiles \o QueryDatasetId \o encodeURIComponent(ToStr(datasetId).v),
        RequestInit(JUndef, JUndef, JUndef))
GetFileFetch(base, key, datasetId, fileId) ==
    RequestFetch(base, key,
        PathFiles \o <<"/">> \o ToStr(fileId).v \o QueryDatasetId
            \o encodeURIComponent(ToStr(datasetId).v),
        RequestInit(JUndef, JUndef, JUndef))
DeleteFileFetch(base, key, datasetId, fileId) ==
    RequestFetch(base, key,
        PathFiles \o <<"/">> \o ToStr(fileId).v \o QueryDatasetId
            \o encodeURIComponent(ToStr(datasetId).v),
        RequestInit(JStr(<<"D", "E", "L", "E", "T", "E">>), JUndef, JUndef))
DeleteDatasetFetch(base, key, datasetId) ==
    RequestFetch(base, key,
        <<"/", "v", "1", "/", "d", "a", "t", "a", "s", "e", "t", "s", "/">>
            \o encodeURIComponent(ToStr(datasetId).v)
            \o <<"/", "f", "i", "l", "e", "s">>,
        RequestInit(JStr(<<"D", "E", "L", "E", "T", "E">>), JUndef, JUndef))
DeleteAllFetch(base, key) ==
    RequestFetch(base, key, PathFiles,
        RequestInit(JStr(<<"D", "E", "L", "E", "T", "E">>), JUndef, JUndef))
SearchBody(datasetId, question, options) ==
    JStr(Stringify(JObj(Spread(<< <<KeyDatasetId, datasetId>>, <<KeyQuestion, question>> >>,
                               options.v))))
SearchFetch(base, key, datasetId, question, options) ==
    RequestFetch(base, key, <<"/", "v", "1", "/", "s", "e", "a", "r", "c", "h">>,
        RequestInit(JStr(<<"P", "O", "S", "T">>), JsonContentType,
                    SearchBody(datasetId, question, options)))
\* The body of query (stream false) and of queryStream (stream true).
QueryBody(datasetId, question, stream, options) ==
    JStr(Stringify(JObj(Spread(<< <<KeyDatasetId, datasetId>>, <<KeyQuestion, question>>,
                                  <<KeyStream, stream>> >>,
                               options.v))))
QueryFetch(base, key, datasetId, question, options) ==
    RequestFetch(base, key, PathQuery,
        RequestInit(JStr(<<"P", "O", "S", "T">>), JsonContentType,
                    QueryBody(datasetId, question, JFalse, options)))
QueryStreamHeadersPlain(key) == JsonContentType
QueryStreamHeaders(key) ==
    JObj(<< <<KeyAuthorization, BearerOf(key)>>, <<KeyContentType, JStr(JsonTypeText)>> >>)
QueryStreamFetch(base, key, datasetId, question, options) ==
    Fetched(ToStr(base).v \o PathQuery, JStr(<<"P", "O", "S", "T">>),
            QueryStreamHeaders(key),
            QueryBody(datasetId, question, JTrue, options))
\* options.ttlSeconds || 3600
TtlSeconds(options) == Or(Lookup(options.v, KeyTtlSeconds), JNum(DefaultTtlSeconds))
CreateTokenFetch(base, key, datasetId, options) ==
    RequestFetch(base, key,
        <<"/", "v", "1", "/", "t", "o", "k", "e", "n", "s", "/", "c", "r", "e", "a", "t", "e">>,
        RequestInit(JStr(<<"P", "O", "S", "T">>), JsonContentType,
            JStr(Stringify(JObj(<< <<KeyDatasetId, datasetId>>,
                                   <<KeyTtlSeconds, TtlSeconds(options)>> >>)))))

\* ------------------------------------------------------------------- state
Calls == 1..NumCalls
Kinds == {"request", "queryStream"}

VARIABLES
    kind,      \* per call: which executor runs it ("none" before the call)
    pc,        \* per call: "idle", the await it is suspended at, or "settled"
    timer,     \* per call: timeoutId: "unset", "armed", "cleared", "fired"
    aborted,   \* per call: controller.signal.aborted
    sent,      \* per call: fetch calls issued
    resp,      \* per call: the response fetch resolved with
    pos,       \* per call: bytes of the body the reader has delivered
    buffer,    \* per call: queryStream's buffer
    pend,      \* per call: the TextDecoder's held bytes
    queue,     \* per call: lines of the current chunk not yet looped over
    events,    \* per call: the events yielded to the consumer
    outcome,   \* per call: how the call settled
    settles,   \* per call: times the call settled
    apiKey,    \* the client's credential
    baseUrl,   \* the client's base URL
    timeout,   \* the client's timeout, in milliseconds
    wire       \* what fetch was last called with

callVars == <<kind, pc, timer, aborted, sent, resp, pos, buffer, pend, queue, events,
              outcome, settles>>
clientVars == <<apiKey, baseUrl, timeout>>
vars == <<kind, pc, timer, aborted, sent, resp, pos, buffer, pend, queue, events,
          outcome, settles, apiKey, baseUrl, timeout, wire>>

Pending == [type |-> "pending", val |-> JUndef]
Returned(x) == [type |-> "return", val |-> x]
Threw(e) == [type |-> "throw", val |-> e]
Completed == [type |-> "complete", val |-> JUndef]
\* The generator was returned by its consumer before it ended.
Abandoned == [type |-> "abandoned", val |-> JUndef]

\* The credentials and the configurations a client is constructed with.
Key1 == <<"k", "1">>
Key2 == <<"k", "2">>
Configs ==
    {JStr(Key1),
     JObj(<< <<KeyApiKey, JStr(Key2)>> >>),
     JObj(<< <<KeyApiKey, JStr(Key1)>>, <<KeyBaseUrl, JStr(<<"h", "t", "t", "p", ":", "/", "/", "h">>)>>,
             <<KeyTimeout, JNum(5)>> >>)}

\* constructor(config): a credential, or an object with the credential and
\* optionally a base URL and a timeout.
Constructor(config) ==
    IF config.t = "str"
    THEN /\ apiKey = config
         /\ baseUrl = JStr(DefaultBaseUrlText)
         /\ timeout = JNum(DefaultTimeout)
    ELSE /\ apiKey = Lookup(config.v, KeyApiKey)
         /\ baseUrl = Or(Lookup(config.v, KeyBaseUrl), JStr(DefaultBaseUrlText))
         /\ timeout = Or(Lookup(config.v, KeyTimeout), JNum(DefaultTimeout))

\* No call has been made.
NoCalls ==
    /\ kind = [c \in Calls |-> "none"]
    /\ pc = [c \in Calls |-> "idle"]
    /\ timer = [c \in Calls |-> "unset"]
    /\ aborted = [c \in Calls |-> FALSE]
    /\ sent = [c \in Calls |-> 0]
    /\ resp = [c \in Calls |-> NoResponse]
    /\ pos = [c \in Calls |-> 0]
    /\ buffer = [c \in Calls |-> <<>>]
    /\ pend = [c \in Calls |-> <<>>]
    /\ queue = [c \in Calls |-> <<>>]
    /\ events = [c \in Calls |-> <<>>]
    /\ outcome = [c \in Calls |-> Pending]
    /\ settles = [c \in Calls |-> 0]
    /\ wire = NoRequest

\* A client constructed with a credential; no call made.
Init == NoCalls /\ Constructor(JStr(Key1))

\* clearTimeout(timeoutId)
ClearTimeoutNever(t) == t
ClearTimeout(t) == IF t = "armed" THEN "cleared" ELSE t

\* fetch(...) is called once where request and queryStream call it.
IssueFetchTwice(n) == n + 2
IssueFetch(n) == n + 1

\* The exchanges controller.abort() of call c aborts: its own.
AbortTargetsShared(c) == Calls
AbortTargets(c) == {c}

\* lines.pop() || '' : the fragment after the last newline stays buffered.
RetainedNone(segs) == <<>>
Retained(segs) == segs[Len(segs)]

\* The call settles: its promise (or generator) is fulfilled or rejected.
Settle(c, how) ==
    /\ pc' = [pc EXCEPT ![c] = "settled"]
    /\ outcome' = [outcome EXCEPT ![c] = how]
    /\ settles' = [settles EXCEPT ![c] = @ + 1]

\* A public method is called: request / queryStream creates its controller,
\* arms its timer and calls fetch.
Invoke(c, k) ==
    /\ pc[c] = "idle"
    /\ kind' = [kind EXCEPT ![c] = k]
    /\ timer' = [timer EXCEPT ![c] = "armed"]
    /\ sent' = [sent EXCEPT ![c] = IssueFetch(@)]
    /\ pc' = [pc EXCEPT ![c] = "fetch"]
    /\ UNCHANGED <<aborted, resp, pos, buffer, pend, queue, events, outcome, settles>>

\* The timer callback: () => controller.abort()
TimerFire(c) ==
    /\ timer[c] = "armed"
    /\ timer' = [timer EXCEPT ![c] = "fired"]
    /\ aborted' = [d \in Calls |-> IF d \in AbortTargets(c) THEN TRUE ELSE aborted[d]]
    /\ UNCHANGED <<kind, pc, sent, resp, pos, buffer, pend, queue, events, outcome, settles>>

\* fetch rejects with an AbortError because the signal aborted; the catch
\* block runs.
FetchAbort(c) ==
    /\ pc[c] = "fetch"
    /\ aborted[c]
    /\ timer' = [timer EXCEPT ![c] = ClearTimeout(@)]
    /\ Settle(c, Threw(Catch(kind[c], AbortError)))
    /\ UNCHANGED <<kind, aborted, sent, resp, pos, buffer, pend, queue, events>>

\* fetch rejects with a transport error; the catch block runs.
FetchFail(c, e) ==
    /\ pc[c] = "fetch"
    /\ ~aborted[c]
    /\ timer' = [timer EXCEPT ![c] = ClearTimeout(@)]
    /\ Settle(c, Threw(Catch(kind[c], e)))
    /\ UNCHANGED <<kind, aborted, sent, resp, pos, buffer, pend, queue, events>>

\* fetch resolves with the response headers: the timer is cleared, and the
\* call goes on to await the error body, the JSON body or the first chunk.
FetchResolve(c, r) ==
    /\ pc[c] = "fetch"
    /\ ~aborted[c]
    /\ timer' = [timer EXCEPT ![c] = ClearTimeout(@)]
    /\ resp' = [resp EXCEPT ![c] = r]
    /\ pc' = [pc EXCEPT ![c] =
                 IF ~Ok(r.status) THEN "errjson"
                 ELSE IF kind[c] = "request" THEN "okjson" ELSE "read"]
    /\ UNCHANGED <<kind, aborted, sent, pos, buffer, pend, queue, events, outcome, settles>>

\* The body of a non-2xx response has arrived: the throw statement runs and
\* the catch block handles what it threw.
ErrBody(c) ==
    /\ pc[c] = "errjson"
    /\ Settle(c, Threw(Catch(kind[c],
                             IF kind[c] = "request"
                             THEN RequestHttpError(resp[c].status, resp[c].body)
                             ELSE StreamHttpError(resp[c].status, resp[c].body))))
    /\ timer' = [timer EXCEPT ![c] = ClearTimeout(@)]
    /\ UNCHANGED <<kind, aborted, sent, resp, pos, buffer, pend, queue, events>>

\* return response.json() : the promise returned is not awaited inside the
\* try block, so the call settles as that promise does.
AsPromiseOfObject(r) ==
    IF r.ok /\ r.val.t = "obj" THEN Returned(r.val) ELSE Threw(SyntaxError)
AsPromise(r) == IF r.ok THEN Returned(r.val) ELSE Threw(SyntaxError)
ReturnedJson(body) == AsPromise(ResponseJson(body))

\* The body of a 2xx response to request has arrived.
OkBody(c) ==
    /\ pc[c] = "okjson"
    /\ Settle(c, ReturnedJson(resp[c].body))
    /\ UNCHANGED <<kind, timer, aborted, sent, resp, pos, buffer, pend, queue, events>>

\* Reading the body of a 2xx response to request fails in the transport.
OkBodyFail(c, e) ==
    /\ pc[c] = "okjson"
    /\ Settle(c, Threw(e))
    /\ UNCHANGED <<kind, timer, aborted, sent, resp, pos, buffer, pend, queue, events>>

\* The for loop of queryStream has run to its next suspension: run.
Suspend(c, run) ==
    /\ queue' = [queue EXCEPT ![c] = run.rest]
    /\ IF run.act = "yield" THEN
           /\ events' = [events EXCEPT ![c] = Append(@, run.val)]
           /\ pc' = [pc EXCEPT ![c] = "yield"]
           /\ UNCHANGED <<outcome, settles, timer>>
       ELSE IF run.act = "read" THEN
           /\ pc' = [pc EXCEPT ![c] = "read"]
           /\ UNCHANGED <<events, outcome, settles, timer>>
       ELSE
           /\ Settle(c, Threw(Catch(kind[c], run.val)))
           /\ timer' = [timer EXCEPT ![c] = ClearTimeout(@)]
           /\ UNCHANGED events

\* reader.read() resolves with the next n bytes of the body.
ReadChunk(c, n) ==
    /\ pc[c] = "read"
    /\ n \in 1..(Len(resp[c].body) - pos[c])
    /\ \E d \in {Decode(pend[c], SubSeq(resp[c].body, pos[c] + 1, pos[c] + n))} :
          /\ pend' = [pend EXCEPT ![c] = d.pend]
          /\ \E segs \in {Split(buffer[c] \o d.text)} :
                /\ buffer' = [buffer EXCEPT ![c] = Retained(segs)]
                /\ Suspend(c, RunLines(SubSeq(segs, 1, Len(segs) - 1)))
    /\ pos' = [pos EXCEPT ![c] = @ + n]
    /\ UNCHANGED <<kind, aborted, sent, resp>>

\* The consumer asks for the next event: the generator resumes after yield.
Resume(c) ==
    /\ pc[c] = "yield"
    /\ Suspend(c, RunLines(queue[c]))
    /\ UNCHANGED <<kind, aborted, sent, resp, pos, buffer, pend>>

\* The consumer stops: it leaves its for-await loop, which calls return()
\* on the generator suspended at yield.  The try statement has no finally
\* block and the catch blocks do not see a return, so the generator ends
\* there: no statement of queryStream runs, neither controller.abort() nor
\* a cancel or release of the reader.
Return(c) ==
    /\ pc[c] = "yield"
    /\ Settle(c, Abandoned)
    /\ UNCHANGED <<kind, timer, aborted, sent, resp, pos, buffer, pend, queue, events>>

\* reader.read() resolves with done: the loop breaks, the generator ends.
ReadEnd(c) ==
    /\ pc[c] = "read"
    /\ pos[c] = Len(resp[c].body)
    /\ Settle(c, Completed)
    /\ UNCHANGED <<kind, timer, aborted, sent, resp, pos, buffer, pend, queue, events>>

\* reader.read() rejects with a transport error; the catch block runs.
ReadFail(c, e) ==
    /\ pc[c] = "read"
    /\ timer' = [timer EXCEPT ![c] = ClearTimeout(@)]
    /\ Settle(c, Threw(Catch(kind[c], e)))
    /\ UNCHANGED <<kind, aborted, sent, resp, pos, buffer, pend, queue, events>>

\* The steps of a call leave the client's fields as they are; what a call
\* hands to fetch is the matter of the method actions below.
ClientKept == UNCHANGED <<apiKey, baseUrl, timeout, wire>>

\* One step of a call of cs, the server answering from the responses given
\* (errs with a non-2xx status, jsons to request, streams to queryStream)
\* and the transport failing with one of fails.
Step(cs, errs, jsons, streams, fails) ==
    /\ ClientKept
    /\ \E c \in cs :
           \/ \E k \in Kinds : Invoke(c, k)
           \/ TimerFire(c)
           \/ FetchAbort(c)
           \/ \E e \in fails : FetchFail(c, e)
           \/ \E r \in errs \cup (IF kind[c] = "request" THEN jsons ELSE streams) :
                 FetchResolve(c, r)
           \/ ErrBody(c)
           \/ OkBody(c)
           \/ \E e \in fails : OkBodyFail(c, e)
           \/ \E n \in 1..Len(resp[c].body) : ReadChunk(c, n)
           \/ Resume(c)
           \/ Return(c)
           \/ ReadEnd(c)
           \/ \E e \in fails : ReadFail(c, e)

\* Concurrent calls on one client, each with one of a few responses.
Next == Step(Calls, FewErrorResponses, FewJsonResponses, FewStreamResponses, {FetchFailed})
Spec == Init /\ [][Next]_vars

\* One call, with every response body.
NextCall == Step({1}, ErrorResponses, JsonResponses, FewStreamResponses, TransportErrors)
SpecCall == Init /\ [][NextCall]_vars

\* The same with the scheduling the runtime guarantees: an armed timer
\* fires, an aborted fetch rejects, and the consumer's for-await loop asks
\* for the next event.  Nothing makes the server answer.
Fairness ==
    \A c \in Calls :
        /\ WF_vars(TimerFire(c) /\ ClientKept)
        /\ WF_vars(FetchAbort(c) /\ ClientKept)
        /\ WF_vars(Resume(c) /\ ClientKept)
FairSpec == Init /\ [][NextCall]_vars /\ Fairness

\* One call, with every stream of up to MaxLines lines and every chunking.
NextStream ==
    Step({1}, FewErrorResponses, FewJsonResponses, StreamResponses, {FetchFailed})
SpecStream == Init /\ [][NextStream]_vars

\* The arguments callers pass to the public methods.
DatasetIds == {JStr(<<"d", "s">>), JStr(<<"a", "/", "b">>)}
FileIds == {JStr(<<"f", "1">>)}
Questions == {JStr(<<"w", "h", "y">>)}
AFile(name) == [t |-> "file", v |-> name]
FileLists == {<<AFile(<<"a">>)>>, <<AFile(<<"a">>), AFile(<<"b">>)>>}
UploadOptionSets ==
    {JObj(<<>>),
     JObj(<< <<KeyChunkSize, JNum(0)>> >>),
     JObj(<< <<KeyMetadata, JObj(<<>>)>>, <<KeyChunkOverlap, JNum(20)>> >>)}
\* Options as they arrive at run time: the fields of the type, and fields
\* the type does not name.
QueryOptionSets ==
    {JObj(<<>>),
     JObj(<< <<KeyFilters, JArr(<<>>)>> >>),
     JObj(<< <<KeyStream, JTrue>> >>),
     JObj(<< <<KeyStream, JFalse>> >>),
     JObj(<< <<KeyStream, JUndef>> >>),
     JObj(<< <<KeyDatasetId, JStr(<<"x">>)>> >>),
     JObj(<< <<KeyQuestion, JStr(<<"x">>)>> >>),
     JObj(<< <<KeyHeaders, JObj(<< <<KeyAuthorization, JStr(<<"x">>)>> >>)>> >>)}
TokenOptionSets ==
    {JObj(<<>>),
     JObj(<< <<KeyTtlSeconds, JUndef>> >>),
     JObj(<< <<KeyTtlSeconds, JNum(60)>> >>),
     JObj(<< <<KeyTtlSeconds, JNum(0)>> >>)}

\* A public method is called and reaches its call of fetch.
Send(f) ==
    /\ wire' = f
    /\ UNCHANGED <<callVars, clientVars>>

upload(datasetId, files, options) ==
    Send(UploadFetch(baseUrl, apiKey, datasetId, files, options))
listFiles(datasetId) == Send(ListFilesFetch(baseUrl, apiKey, datasetId))
getFile(datasetId, fileId) == Send(GetFileFetch(baseUrl, apiKey, datasetId, fileId))
deleteFile(datasetId, fileId) == Send(DeleteFileFetch(baseUrl, apiKey, datasetId, fileId))
deleteDataset(datasetId) == Send(DeleteDatasetFetch(baseUrl, apiKey, datasetId))
deleteAll == Send(DeleteAllFetch(baseUrl, apiKey))
search(datasetId, question, options) ==
    Send(SearchFetch(baseUrl, apiKey, datasetId, question, options))
query(datasetId, question, options) ==
    Send(QueryFetch(baseUrl, apiKey, datasetId, question, options))
queryStream(datasetId, question, options) ==
    Send(QueryStreamFetch(baseUrl, apiKey, datasetId, question, options))
createToken(datasetId, options) ==
    Send(CreateTokenFetch(baseUrl, apiKey, datasetId, options))

\* The requests of a client, constructed with any of the configurations.
InitRequests == NoCalls /\ \E config \in Configs : Constructor(config)
NextRequests ==
    \E datasetId \in DatasetIds :
        \/ \E files \in FileLists, options \in UploadOptionSets :
              upload(datasetId, files, options)
        \/ listFiles(datasetId)
        \/ \E fileId \in FileIds : getFile(datasetId, fileId)
        \/ \E fileId \in FileIds : deleteFile(datasetId, fileId)
        \/ deleteDataset(datasetId)
        \/ deleteAll
        \/ \E question \in Questions, options \in QueryOptionSets :
              search(datasetId, question, options)
        \/ \E question \in Questions, options \in QueryOptionSets :
              query(datasetId, question, options)
        \/ \E question \in Questions, options \in QueryOptionSets :
              queryStream(datasetId, question, options)
        \/ \E options \in TokenOptionSets : createToken(datasetId, options)
SpecRequests == InitRequests /\ [][NextRequests]_vars

\* ------------------------------------------------------------------ claims
\* The frames of the lines ls, in order: the parsed payload of each line
\* that has the marker and whose remainder is valid JSON.
RECURSIVE FramesOf(_)
FramesOf(ls) ==
    IF ls = <<>> THEN <<>>
    ELSE (IF Frame(Head(ls)).ok THEN <<Frame(Head(ls)).val>> ELSE <<>>)
             \o FramesOf(Tail(ls))

\* The newline-terminated lines of bytes decoded in one piece.
AllButLast(segs) == SubSeq(segs, 1, Len(segs) - 1)
CompleteLines(bytes) == AllButLast(Split(Decode(<<>>, bytes).text))

NewlineTerminated(bytes) == bytes = <<>> \/ bytes[Len(bytes)] = "\n"

\* Call c is a queryStream call that got a 2xx response.
Streaming(c) == kind[c] = "queryStream" /\ Ok(resp[c].status)

\* C1: however the bytes of a 2xx stream are cut into chunks, the events
\* yielded once any prefix of it has been read (with those of the lines of
\* the last chunk still to be looped over) are the frames of the complete
\* lines of that prefix, in their order; and a stream of newline-terminated
\* lines read to its end has yielded exactly the frames of its lines.
ChunkingIndependent ==
    \A c \in Calls :
        Streaming(c) =>
            /\ pc[c] \in {"read", "yield"} =>
                   events[c] \o FramesOf(queue[c])
                       = FramesOf(CompleteLines(SubSeq(resp[c].body, 1, pos[c])))
            /\ (outcome[c] = Completed /\ NewlineTerminated(resp[c].body)) =>
                   events[c] = FramesOf(CompleteLines(resp[c].body))

\* The decoder holds the first byte of a two-byte character cut by the
\* chunk boundary, inside a frame, an event already yielded.
SplitCharacterHeld ==
    \E c \in Calls :
        /\ Streaming(c)
        /\ pc[c] = "read"
        /\ pend[c] = <<"xC3">>
        /\ HasPrefix(buffer[c], Marker)
        /\ events[c] # <<>>
        /\ NewlineTerminated(resp[c].body)

\* C8: a line without the marker, or with it and a remainder that is not
\* JSON, gives no event and no failure and does not end the sequence: a 2xx
\* stream fails only as the transport fails, and read to its end it has
\* yielded one event for each of its valid lines, those after a malformed
\* line included.
MalformedSkipped ==
    \A c \in Calls :
        Streaming(c) =>
            /\ outcome[c].type = "throw" =>
                   outcome[c].val \in {StreamCatch(e) : e \in TransportErrors}
            /\ outcome[c] = Completed =>
                   /\ Len(events[c]) =
                          Cardinality({i \in DOMAIN CompleteLines(resp[c].body) :
                                          Frame(CompleteLines(resp[c].body)[i]).ok})
                   /\ \A i \in DOMAIN CompleteLines(resp[c].body) :
                          Frame(CompleteLines(resp[c].body)[i]).ok =>
                              \E j \in DOMAIN events[c] :
                                  events[c][j] = Frame(CompleteLines(resp[c].body)[i]).val

\* The stream with a malformed frame between two valid ones was read to its
\* end and gave the two events.
MalformedBetweenValid ==
    \E c \in Calls :
        /\ Streaming(c)
        /\ resp[c].body = MalformedExample
        /\ outcome[c] = Completed
        /\ events[c] = <<Frame(LineDelta).val, Frame(LineDone).val>>

\* C2: no wait of a queryStream call on the server lasts forever, be it for
\* the response headers or, after them, for the next chunk: the chunk
\* comes, or the call fails.
StreamWaitEnds ==
    \A c \in Calls :
        /\ (kind[c] = "queryStream" /\ pc[c] = "fetch") ~> (pc[c] # "fetch")
        /\ (kind[c] = "queryStream" /\ pc[c] = "read") ~> (pc[c] # "read")

\* C3: a non-streaming call that has begun settles, wherever the server
\* stalls in the response: before the headers or before the end of the body.
RequestCallSettles ==
    \A c \in Calls :
        (kind[c] = "request" /\ pc[c] \in {"fetch", "errjson", "okjson"})
            ~> (pc[c] = "settled")

\* C4: whatever a call throws is an EasyRAGError.
FailuresNormalized ==
    \A c \in Calls : outcome[c].type = "throw" => IsEasyRAGError(outcome[c].val)

\* Call c is a request call settled on a non-2xx response.
RequestHttpFailed(c) ==
    kind[c] = "request" /\ pc[c] = "settled" /\ resp[c] # NoResponse /\ ~Ok(resp[c].status)

\* C5: a non-streaming call that got a non-2xx response throws an
\* EasyRAGError whose status is the response's, whatever the body.
StatusPreserved ==
    \A c \in Calls :
        RequestHttpFailed(c) =>
            /\ outcome[c].type = "throw"
            /\ IsEasyRAGError(outcome[c].val)
            /\ outcome[c].val.v.status = JNum(resp[c].status)

\* A field of the JSON object that is the body; undefined when absent.
Field(body, key) == Lookup(ResponseJson(body).val.v, key)
IsObjectBody(body) == ResponseJson(body).ok /\ ResponseJson(body).val.t = "obj"
NonEmpty(x) == x # JUndef /\ x # JStr(<<>>)

StreamFailsAsRequest ==
    \A c \in Calls :
        (kind[c] = "queryStream" /\ pc[c] = "settled" /\ resp[c] # NoResponse
            /\ ~Ok(resp[c].status)) =>
            /\ events[c] = <<>>
            /\ outcome[c] =
                   Threw(RequestCatch(RequestHttpError(resp[c].status, resp[c].body)))

\* What the model holds of call c.
CallState(c) ==
    <<kind[c], pc[c], timer[c], aborted[c], sent[c], resp[c], pos[c], buffer[c],
      pend[c], queue[c], events[c], outcome[c], settles[c]>>

\* C9: a step changes the state of one call only (its timer, its
\* controller, its buffer, its events, its outcome), and an exchange is
\* aborted only by its own call's timer firing.
NoInterference ==
    [][\A c \in Calls :
          /\ CallState(c)' # CallState(c) =>
                 \A d \in Calls \ {c} : CallState(d)' = CallState(d)
          /\ (aborted[c]' /\ ~aborted[c]) => (timer[c] = "armed" /\ timer[c]' = "fired")]_vars

\* The timer of one call has fired and its fetch is about to reject, while
\* another call, its signal not aborted, is in the middle of its stream.
TimeoutBesideStream ==
    \E c, d \in Calls :
        /\ c # d
        /\ pc[c] = "fetch" /\ timer[c] = "fired" /\ aborted[c]
        /\ pc[d] = "yield" /\ ~aborted[d]
        /\ events[d] = <<JNum(1)>>

\* C10: a call that has begun has issued one fetch, no more after it
\* settled, and it settles at most once: it has an outcome exactly when it
\* has settled, once.
OneRequestOneOutcome ==
    \A c \in Calls :
        /\ sent[c] = (IF pc[c] = "idle" THEN 0 ELSE 1)
        /\ settles[c] = (IF pc[c] = "settled" THEN 1 ELSE 0)
        /\ (outcome[c] = Pending) = (pc[c] # "settled")

\* A call has failed, having sent its one request.
FailedAfterOneRequest ==
    \E c \in Calls :
        /\ pc[c] = "settled"
        /\ outcome[c].type = "throw"
        /\ sent[c] = 1

\* C11: a call that has settled has no pending timer: its timer was
\* cleared, or it has fired.
NoTimerLeft ==
    \A c \in Calls : pc[c] = "settled" => timer[c] \in {"cleared", "fired"}

\* A call has returned a value, and its timer is cleared.
ReturnedWithTimerCleared ==
    \E c \in Calls :
        /\ pc[c] = "settled"
        /\ outcome[c].type = "return"
        /\ timer[c] = "cleared"

\* Call c is a request call whose exchange failed in the transport: fetch
\* rejected, or the body of a 2xx response that is valid JSON was not read.
TransportFailed(c) ==
    /\ kind[c] = "request"
    /\ pc[c] = "settled"
    /\ outcome[c].type = "throw"
    /\ \/ resp[c] = NoResponse
       \/ Ok(resp[c].status) /\ ResponseJson(resp[c].body).ok

\* The Network error of the failure e: its message (the label "Network
\* error" for a failure without one), no status, no code, e as details.
NetworkErrorOf(e) ==
    EasyRAGError(IF e.v.message = JStr(<<>>) THEN JStr(NetworkErrorText) ELSE e.v.message,
                 JUndef, JUndef, e)

\* C12: a non-streaming call whose exchange failed in the transport throws
\* Timeout ("Request timeout", no status) when its own timer caused the
\* failure, and otherwise the Network error of the failure.
TransportFailureNormalized ==
    \A c \in Calls :
        TransportFailed(c) =>
            IF aborted[c]
            THEN outcome[c].val = EasyRAGError(JStr(RequestTimeoutText), JUndef, JUndef, JUndef)
            ELSE outcome[c].val \in {NetworkErrorOf(e) : e \in TransportErrors}

\* The variant fields of a StreamEvent, and how many of them event x has.
VariantKeys == {<<"d", "e", "l", "t", "a">>, <<"d", "o", "n", "e">>, KeyError}
Populated(x) == {k \in VariantKeys : x.t = "obj" /\ Lookup(x.v, k) # JUndef}

\* C13: every event yielded has exactly one of delta, done, error.
OneVariantPerEvent ==
    \A c \in Calls :
        \A i \in DOMAIN events[c] : Cardinality(Populated(events[c][i])) = 1

\* Call c is a request call settled on a 2xx response whose body is JSON.
GotJson(c) ==
    /\ kind[c] = "request"
    /\ pc[c] = "settled"
    /\ Ok(resp[c].status)
    /\ ResponseJson(resp[c].body).ok

\* C14: a non-streaming call that got a 2xx response with a JSON body
\* returns the parsed body, whatever its shape, unless the transport failed
\* while the body was read; and a call returns nothing else.
PayloadUnchanged ==
    \A c \in Calls :
        /\ (GotJson(c) /\ outcome[c].val \notin TransportErrors) =>
               outcome[c] = Returned(JSONParse(Decode(<<>>, resp[c].body).text).val)
        /\ outcome[c].type = "return" => GotJson(c)

\* The object with a nested object has been returned as the server sent it.
NestedObjectReturned ==
    \E c \in Calls :
        /\ GotJson(c)
        /\ outcome[c] =
               Returned(JObj(<< <<KeyError, JStr(SubSeq(BodyCredits, 11, 30))>>,
                                <<KeyDetails,
                                  JObj(<< <<SubSeq(BodyCredits, 45, 52), JNum(1)>>,
                                          <<SubSeq(BodyCredits, 58, 66), JNum(0)>> >>)>> >>))

\* The JSON body of the request w carries value under key.
Carries(w, key, value) ==
    /\ w.body.t = "str"
    /\ JSONParse(w.body.v).ok
    /\ JSONParse(w.body.v).val.t = "obj"
    /\ Lookup(JSONParse(w.body.v).val.v, key) = value

\* C15: whatever the options, the body query sends carries the datasetId
\* and question it was called with and stream false, and the body
\* queryStream sends carries them with stream true.
QueryFieldsFixed ==
    [][\A datasetId \in DatasetIds, question \in Questions, options \in QueryOptionSets :
          /\ query(datasetId, question, options) =>
                 /\ Carries(wire', KeyDatasetId, datasetId)
                 /\ Carries(wire', KeyQuestion, question)
                 /\ Carries(wire', KeyStream, JFalse)
          /\ queryStream(datasetId, question, options) =>
                 /\ Carries(wire', KeyDatasetId, datasetId)
                 /\ Carries(wire', KeyQuestion, question)
                 /\ Carries(wire', KeyStream, JTrue)]_vars

\* C16: the body createToken sends is {datasetId, ttlSeconds}, ttlSeconds
\* the caller's options.ttlSeconds when one was given, 0 included, and
\* 3600 when none was.
TtlSecondsSent ==
    [][\A datasetId \in DatasetIds, options \in TokenOptionSets :
          createToken(datasetId, options) =>
              /\ Carries(wire', KeyDatasetId, datasetId)
              /\ Carries(wire', KeyTtlSeconds,
                         IF Lookup(options.v, KeyTtlSeconds) # JUndef
                         THEN Lookup(options.v, KeyTtlSeconds)
                         ELSE JNum(3600))
              /\ Len(JSONParse(wire'.body.v).val.v) = 2]_vars

\* C17: the credential, the base URL and the timeout never change, and
\* every request sent carries Authorization: Bearer <credential>.
AuthorizationKept ==
    [][/\ apiKey' = apiKey /\ baseUrl' = baseUrl /\ timeout' = timeout
       /\ wire' # NoRequest =>
              /\ wire'.headers.t = "obj"
              /\ Lookup(wire'.headers.v, KeyAuthorization) = JStr(BearerText \o apiKey.v)]_vars

\* A client constructed with the second credential has sent a request whose
\* options named an Authorization header of their own: the options are in
\* the body, and the header is the client's.
OwnHeaderIgnored ==
    /\ apiKey = JStr(Key2)
    /\ wire # NoRequest
    /\ Carries(wire, KeyHeaders, JObj(<< <<KeyAuthorization, JStr(<<"x">>)>> >>))
    /\ Lookup(wire.headers.v, KeyAuthorization) = JStr(BearerText \o Key2)

\* C18: a 2xx stream ends normally only at end-of-data, all its bytes read
\* and all its lines looped over; it fails only as the transport fails, an
\* error frame being an event like any other; and when it has ended, its
\* last event is the frame of its last valid line, whatever frames (done
\* and error among them) came before: nothing stopped it early and nothing
\* was added.
EndsAtEndOfData ==
    \A c \in Calls :
        Streaming(c) =>
            /\ outcome[c] = Completed =>
                   /\ pos[c] = Len(resp[c].body)
                   /\ queue[c] = <<>>
                   /\ Len(events[c]) = Len(FramesOf(CompleteLines(resp[c].body)))
                   /\ events[c] # <<>> =>
                          events[c][Len(events[c])] =
                              FramesOf(CompleteLines(resp[c].body))
                                  [Len(FramesOf(CompleteLines(resp[c].body)))]
            /\ outcome[c].type = "throw" =>
                   /\ outcome[c].val \in {StreamCatch(e) : e \in TransportErrors}
                   /\ pc[c] = "settled"

\* A stream of an error frame and then a delta frame was read to its end:
\* both were yielded, the error as an event.
FrameAfterErrorYielded ==
    \E c \in Calls :
        /\ Streaming(c)
        /\ resp[c].body = WireOf(<<LineError, LineDelta>>, <<>>)
        /\ outcome[c] = Completed
        /\ events[c] = <<Frame(LineError).val, Frame(LineDelta).val>>

\* C19: when a 2xx stream has ended, the text after its last newline is
\* still in the buffer and has given no event, a valid frame or not: the
\* events are the frames of the newline-terminated lines only.
LastFragmentDiscarded ==
    \A c \in Calls :
        (Streaming(c) /\ outcome[c] = Completed) =>
            /\ buffer[c] = Retained(Split(Decode(<<>>, resp[c].body).text))
            /\ events[c] =
                   FramesOf(AllButLast(Split(Decode(<<>>, resp[c].body).text)))

\* A stream that ends with a valid done frame without a newline has ended:
\* the frame is in the buffer and was not yielded.
UnterminatedFrameLost ==
    \E c \in Calls :
        /\ Streaming(c)
        /\ outcome[c] = Completed
        /\ resp[c].body = WireOf(<<LineDelta>>, LineDone)
        /\ buffer[c] = LineDone
        /\ Frame(buffer[c]).ok
        /\ events[c] = <<Frame(LineDelta).val>>

\* C20: when a 2xx stream has failed, the events yielded are the frames of
\* the newline-terminated lines of the bytes read before the failure, in
\* their order, none is left to yield, and the call has settled once.
EventsBeforeFailure ==
    \A c \in Calls :
        (Streaming(c) /\ outcome[c].type = "throw") =>
            /\ events[c] = FramesOf(CompleteLines(SubSeq(resp[c].body, 1, pos[c])))
            /\ queue[c] = <<>>
            /\ pc[c] = "settled"
            /\ settles[c] = 1

\* A stream has failed with two frames read and a part of a later line in
\* the buffer: the two events were yielded before the failure.
FailedAfterTwoEvents ==
    \E c \in Calls :
        /\ Streaming(c)
        /\ outcome[c].type = "throw"
        /\ Len(events[c]) = 2
        /\ buffer[c] # <<>>
        /\ pos[c] < Len(resp[c].body)

\* The exchange of call c has been cancelled: its controller has aborted
\* its signal, the one means of cancellation queryStream has.
Cancelled(c) == aborted[c]

\* C21: once the consumer has returned the generator, no further chunk is
\* read and no event is left to come, and the exchange has been cancelled.
ClosedOnReturn ==
    \A c \in Calls :
        outcome[c] = Abandoned =>
            /\ pc[c] = "settled"
            /\ Cancelled(c)

====
